---- MODULE Spec2Model ----
(***************************************************************************)
(* Model of the jobscall.me crawler (src/firecrawl/jobscallme_crawl.py):   *)
(* the stopping policy (DateUtils.is_job_too_old, _should_stop_crawling,   *)
(* scrape_job_page) and the two orchestrators scrape_all_jobs_async and    *)
(* scrape_all_jobs_sync with their completion loops; and of the later      *)
(* stages: structured extraction (jobscallme_extract.py), population of    *)
(* individual files (populate_json.py) and upload (upload.py).             *)
(***************************************************************************)
EXTENDS Integers, Sequences, FiniteSets, TLC

VARIABLES
    args,           \* main: the parsed command line (--target-date, --concurrency)
    map_result,     \* main: what self.firecrawl.map gives for the site
    links,          \* main: what crawl_jobscall_me returned
    orchestrator,   \* "async" (scrape_all_jobs -> scrape_all_jobs_async) or "sync"
    config,         \* CrawlerConfig after __post_init__
    now,            \* what datetime.datetime.now() returns during the run
    job_links,      \* the discovered links handed to the orchestrator
    st,             \* per candidate: task / future state
    result,         \* per candidate: what scrape_job_page returned
    done,           \* async: the completion queue of asyncio.as_completed
    scraped_jobs,   \* the accepted list (candidate positions, in append order)
    sink,           \* per candidate: outcome of FileManager.save_job_files
    should_stop,    \* async: the should_stop flag
    cursor,         \* sync: position of the cancellation loop, 0 before it starts
    awaiting,       \* async: the completion loop is suspended in "await coro"
    semaphore,      \* async: value of the asyncio.Semaphore
    pc,             \* position of the orchestrator
    halt_inflight,  \* history: candidates running in a worker when the halt was seen
    eval_in,        \* function harnesses: the inputs of one call
    eval_out,       \* function harnesses: its result
    md_files,       \* extraction stage: the markdown files found in the directory
    tasks,          \* extraction stage: per file, the process_single_file task
    extract_calls,  \* history: per file, number of extract_job_data_async calls
    successful_files,   \* extraction stage: the JSON paths collected
    failed_files,   \* extraction stage: the failed files collected
    json_files,     \* upload stage: the JSON files found
    uploaded,       \* upload stage: per file, what upload_file returned
    successful_uploads, \* upload stage: the counter of upload_all_json_files
    exit_status     \* upload stage: the status main exits with (-1 while running)

vars == <<args, map_result, links, orchestrator, config, now, job_links, st, result, done, scraped_jobs,
          sink, should_stop, cursor, awaiting, semaphore, pc, halt_inflight,
          eval_in, eval_out, md_files, tasks, extract_calls, successful_files,
          failed_files, json_files, uploaded, successful_uploads, exit_status>>

\* the variables of the extraction stage and the upload stage
stage_vars == <<md_files, tasks, extract_calls, successful_files, failed_files,
                json_files, uploaded, successful_uploads, exit_status>>

\* the variables of the crawler
crawl_vars == <<args, map_result, links, orchestrator, config, now, job_links, st, result,
                done, scraped_jobs, sink, should_stop, cursor, awaiting, halt_inflight>>

-----------------------------------------------------------------------------
(* Bounds of the model. *)

\* number of links discovered before the orchestrator runs
MaxLinks == 3

\* largest value given for --concurrency
MaxConcurrency == 2

\* CrawlerConfig.max_jobs default
DefaultMaxJobs == 500

-----------------------------------------------------------------------------
(* Dates and date-times.  A date is [mon, day] within one non-leap year, a  *)
(* date-time adds the hour and whether it carries a UTC offset (tzinfo).    *)

NoDate == [mon |-> 0, day |-> 0]

DaysInMonth(m) ==
    CASE m \in {4, 6, 9, 11} -> 30
      [] m = 2 -> 28
      [] OTHER -> 31

Min(a, b) == IF a <= b THEN a ELSE b

Max(a, b) == IF a >= b THEN a ELSE b

\* datetime.date(): the calendar date of a parsed date-time
DateOf(dt) == [mon |-> dt.mon, day |-> dt.day]

\* now - relativedelta(months=1): the same day of the previous month, clipped
\* to that month's last day
SubtractOneMonth(dt) ==
    [mon |-> dt.mon - 1, day |-> Min(dt.day, DaysInMonth(dt.mon - 1)), hr |-> dt.hr]

\* wall-clock order of two date-times
DtBefore(a, b) ==
    \/ a.mon < b.mon
    \/ a.mon = b.mon /\ a.day < b.day
    \/ a.mon = b.mon /\ a.day = b.day /\ a.hr < b.hr

-----------------------------------------------------------------------------
(* Timestamp strings.  fmt says what the string holds: "none" is an absent *)
(* value (None), "empty" the empty string, "garbage" text that is no date, *)
(* "date" a calendar date, "naive" a date-time without offset, "offset" a  *)
(* date-time with a UTC offset.                                            *)

TimeString(f, m, d, h) == [fmt |-> f, mon |-> m, day |-> d, hr |-> h]

NoneTime == TimeString("none", 0, 0, 0)

EmptyTime == TimeString("empty", 0, 0, 0)

GarbageTime == TimeString("garbage", 0, 0, 0)

\* Python truthiness of a time_value: None and "" are falsy
Truthy(tv) == tv.fmt \notin {"none", "empty"}

\* dateutil parser.parse: raises on text that holds no date; a date alone
\* parses to midnight; an offset makes the result timezone-aware
parser_parse(tv) ==
    IF tv.fmt \in {"date", "naive", "offset"}
    THEN [ok |-> TRUE, mon |-> tv.mon, day |-> tv.day,
          hr |-> IF tv.fmt = "date" THEN 0 ELSE tv.hr,
          aware |-> tv.fmt = "offset"]
    ELSE [ok |-> FALSE, mon |-> 0, day |-> 0, hr |-> 0, aware |-> FALSE]

-----------------------------------------------------------------------------
(* DateUtils.is_job_too_old *)

\* job_date < cutoff_date: comparing an offset-aware with the naive cutoff
\* raises TypeError
CompareRaises(parsed) == parsed.aware

\* faulty variant: the cutoff itself counts as too old (<= for <)
is_job_too_old_inclusive(time_value, clock) ==
    LET parsed == parser_parse(time_value)
        cutoff_date == SubtractOneMonth(clock)
    IN  IF ~parsed.ok \/ CompareRaises(parsed)
        THEN FALSE
        ELSE ~DtBefore(cutoff_date, parsed)

\* DateUtils.is_job_too_old, with the clock it reads as a parameter
is_job_too_old(time_value, clock) ==
    LET parsed == parser_parse(time_value)
        cutoff_date == SubtractOneMonth(clock)
    IN  IF ~parsed.ok \/ CompareRaises(parsed)
        THEN FALSE                  \* except Exception: return False
        ELSE DtBefore(parsed, cutoff_date)

\* faulty variant: target-date mode asks to stop on a non-matching date
should_stop_crawling_stops_in_target_mode(cfg, time_value, job_date, clock) ==
    IF cfg.target_date # NoDate
    THEN <<job_date # cfg.target_date, job_date = cfg.target_date>>
    ELSE IF is_job_too_old(time_value, clock) THEN <<TRUE, FALSE>> ELSE <<FALSE, TRUE>>

\* JobscallMeCrawler._should_stop_crawling: <<stop_crawling, matches>>
_should_stop_crawling(cfg, time_value, job_date, clock) ==
    IF cfg.target_date # NoDate
    THEN <<FALSE, job_date = cfg.target_date>>
    ELSE IF is_job_too_old(time_value, clock) THEN <<TRUE, FALSE>> ELSE <<FALSE, TRUE>>

-----------------------------------------------------------------------------
(* Fetched documents.  A page says whether it holds an <article>, whether   *)
(* the article holds a <time>, whether that element has a datetime          *)
(* attribute, the attribute's value and the element's stripped text;        *)
(* outside is the value of a <time> outside the article (NoneTime if there  *)
(* is none), raises whether parsing or serialising the document raises.     *)

Page(a, t, h, d, x) ==
    [article |-> a, time_tag |-> t, has_datetime |-> h, datetime |-> d, text |-> x,
     outside |-> NoneTime, raises |-> FALSE]

NoPage == Page(FALSE, FALSE, FALSE, NoneTime, NoneTime)

\* what firecrawl.scrape and _extract_html_content give for one URL:
\* "raise" the scrape raises, "falsy" it returns nothing, "nohtml" the
\* response holds no HTML, "html" it holds the page
Fetch(k, p) == [kind |-> k, page |-> p]

NoneResult ==
    [is_none |-> TRUE, html_content |-> "none", article_found |-> FALSE,
     time_value |-> NoneTime, job_date |-> NoDate,
     stop_crawling |-> FALSE, matches_target_date |-> FALSE]

\* faulty variant: the element's text wins over its datetime attribute
time_tag_value_prefers_text(page) ==
    IF page.text.fmt # "empty" THEN page.text ELSE page.datetime

\* time_tag.get('datetime', time_tag.text.strip())
time_tag_value(page) == IF page.has_datetime THEN page.datetime ELSE page.text

\* faulty variant: the exception is not caught; scrape_job_page then returns None
on_parse_error_propagates(page) == NoneResult

\* extract_article_content, "except Exception": the whole document, no article
on_parse_error(page) ==
    [is_none |-> FALSE, html_content |-> "body", article_found |-> FALSE,
     time_value |-> NoneTime, job_date |-> NoDate,
     stop_crawling |-> FALSE, matches_target_date |-> FALSE]

\* HtmlProcessor.extract_article_content
extract_article_content(page) ==
    LET time_value == IF page.article /\ page.time_tag
                      THEN time_tag_value(page) ELSE NoneTime
        parsed == parser_parse(time_value)
    IN  IF page.raises THEN on_parse_error(page) ELSE
        [is_none |-> FALSE,
         html_content |-> IF page.article THEN "article" ELSE "body",
         article_found |-> page.article,
         time_value |-> time_value,
         job_date |-> IF page.article /\ page.time_tag /\ parsed.ok
                      THEN DateOf(parsed) ELSE NoDate,
         stop_crawling |-> FALSE,
         matches_target_date |-> FALSE]

\* faulty variant: the no-date branches ask to stop
unknown_date_verdict_stops(cfg) == <<TRUE, cfg.target_date = NoDate>>

\* scrape_job_page, the branches taken when no date is found or it does not
\* parse: <<stop_crawling, matches_target_date>>
unknown_date_verdict(cfg) == <<FALSE, cfg.target_date = NoDate>>

\* JobscallMeCrawler.scrape_job_page
scrape_job_page(cfg, fetch, clock) ==
    IF fetch.kind # "html"
    THEN NoneResult
    ELSE LET processed == extract_article_content(fetch.page)
             parsed == parser_parse(processed.time_value)
             verdict == IF Truthy(processed.time_value) /\ parsed.ok
                        THEN _should_stop_crawling(cfg, processed.time_value,
                                                   DateOf(parsed), clock)
                        ELSE unknown_date_verdict(cfg)
         IN  [processed EXCEPT !.stop_crawling = verdict[1],
                               !.matches_target_date = verdict[2]]

-----------------------------------------------------------------------------
(* Strings.  A URL or an exclusion string is a sequence of symbols: "/" is *)
(* the slash, every other symbol stands for a run of characters without    *)
(* slash ("site" for the scheme and host).                                 *)

\* Python "sub in s"
Contains(s, sub) ==
    \E k \in 0..(Len(s) - Len(sub)) : SubSeq(s, k + 1, k + Len(sub)) = sub

\* s.endswith(suffix)
EndsWith(s, suffix) ==
    Len(suffix) <= Len(s) /\ SubSeq(s, Len(s) - Len(suffix) + 1, Len(s)) = suffix

\* s.find(sub) + 1: the position of the leftmost occurrence, 0 if there is none
Find(s, sub) ==
    IF Contains(s, sub)
    THEN CHOOSE k \in 1..Len(s) :
            /\ k + Len(sub) - 1 <= Len(s)
            /\ SubSeq(s, k, k + Len(sub) - 1) = sub
            /\ \A j \in 1..(k - 1) : SubSeq(s, j, j + Len(sub) - 1) # sub
    ELSE 0

RECURSIVE split_last(_, _)
\* s.split(sep)[-1]: occurrences are consumed left to right, without overlap
split_last(s, sep) ==
    IF ~Contains(s, sep)
    THEN s
    ELSE split_last(SubSeq(s, Find(s, sep) + Len(sep), Len(s)), sep)

JobMarker == <<"/", "job", "/">>

\* CrawlerConfig.excluded_urls default: ['/job/jobscallmefb']
DefaultExcludedUrls == << <<"/", "job", "/", "jobscallmefb">> >>

Url(path) == <<"site">> \o path

\* the URLs a mapping response can hold
JobA == Url(<<"/", "job", "/", "a">>)

JobB == Url(<<"/", "job", "/", "b">>)

MapUrls ==
    {JobA, JobB,
     Url(<<"/", "job", "/", "category", "/", "a">>),
     Url(<<"/", "job", "/", "tag", "/", "a">>),
     Url(<<"/", "job", "/", "jobscallmefb">>),
     Url(<<"/", "job", "/", "jobscallmefb", "a">>),
     Url(<<"/", "job", "/">>),
     Url(<<"/", "job", "/", "job", "/">>),
     Url(<<"/", "a">>)}

-----------------------------------------------------------------------------
(* Link discovery: map_website, extract_links, filter_job_links,           *)
(* crawl_jobscall_me.                                                      *)

\* faulty variant: a link is excluded only when it ends with an exclusion string
keeps_link_exclusion_by_suffix(cfg, link) ==
    /\ Contains(link, JobMarker)
    /\ ~\E k \in DOMAIN cfg.excluded_urls : EndsWith(link, cfg.excluded_urls[k])
    /\ LET job_part == split_last(link, JobMarker) IN
         /\ job_part # <<>>
         /\ ~\E k \in DOMAIN job_part : job_part[k] = "/"
    /\ ~EndsWith(link, JobMarker)
    /\ ~Contains(link, JobMarker \o <<"category", "/">>)
    /\ ~Contains(link, JobMarker \o <<"tag", "/">>)

\* the test of filter_job_links for one link
keeps_link(cfg, link) ==
    /\ Contains(link, JobMarker)
    /\ ~\E k \in DOMAIN cfg.excluded_urls : Contains(link, cfg.excluded_urls[k])
    /\ LET job_part == split_last(link, JobMarker) IN
         /\ job_part # <<>>
         /\ ~\E k \in DOMAIN job_part : job_part[k] = "/"
    /\ ~EndsWith(link, JobMarker)
    /\ ~Contains(link, JobMarker \o <<"category", "/">>)
    /\ ~Contains(link, JobMarker \o <<"tag", "/">>)

\* faulty variant: filtered_links.insert(0, link)
filter_job_links_reversed(cfg, all_links) ==
    LET kept == SelectSeq(all_links, LAMBDA link : keeps_link(cfg, link))
    IN  [k \in DOMAIN kept |-> kept[Len(kept) + 1 - k]]

\* JobscallMeCrawler.filter_job_links
filter_job_links(cfg, all_links) == SelectSeq(all_links, LAMBDA link : keeps_link(cfg, link))

\* values of a mapping response.  shape "none": None; "object": an object
\* with a links attribute whose items may have a url attribute; "dict": a
\* mapping, entries gives its keys and values; "list": a list of URLs;
\* "dict_object", "list_object": a mapping or a list that also has a links
\* attribute; "other": any other truthy value
MapValue(shape, link_results, entries, items) ==
    [shape |-> shape, links |-> link_results, entries |-> entries, items |-> items]

NoEntries == [k \in {} |-> <<>>]

NoneValue == MapValue("none", <<>>, NoEntries, <<>>)

\* one item of map_result.links
LinkResult(has_url, url) == [has_url |-> has_url, url |-> url]

\* Python truthiness of a mapping response
TruthyValue(v) ==
    CASE v.shape = "none" -> FALSE
      [] v.shape \in {"dict", "dict_object"} -> DOMAIN v.entries # {}
      [] v.shape \in {"list", "list_object"} -> v.items # <<>>
      [] OTHER -> TRUE

\* what self.firecrawl.map does: returns a value or raises
MapResponse(outcome, value) == [outcome |-> outcome, value |-> value]

\* JobscallMeCrawler.map_website: None when the request raises
map_website(response) ==
    IF response.outcome = "ok" THEN response.value ELSE NoneValue

\* faulty variant: the keys are tried in another order
possible_keys_reordered == <<"urls", "links", "data", "results">>

possible_keys == <<"links", "urls", "data", "results">>

\* JobscallMeCrawler.extract_links
extract_links(v) ==
    CASE v.shape \in {"object", "dict_object", "list_object"} ->
            LET with_url == SelectSeq(v.links, LAMBDA r : r.has_url /\ r.url # <<>>)
            IN  [k \in DOMAIN with_url |-> with_url[k].url]
      [] v.shape = "dict" ->
            IF \E k \in DOMAIN possible_keys : possible_keys[k] \in DOMAIN v.entries
            THEN LET first == CHOOSE k \in DOMAIN possible_keys :
                                /\ possible_keys[k] \in DOMAIN v.entries
                                /\ \A j \in 1..(k - 1) :
                                     possible_keys[j] \notin DOMAIN v.entries
                 IN  v.entries[possible_keys[first]]
            ELSE <<>>
      [] v.shape = "list" -> v.items
      [] OTHER -> <<>>

\* Optional[List[str]]
LinkList(is_none, list) == [is_none |-> is_none, list |-> list]

NoLinks == LinkList(TRUE, <<>>)

\* JobscallMeCrawler.crawl_jobscall_me
crawl_jobscall_me(cfg, response) ==
    LET value == map_website(response) IN
    IF ~TruthyValue(value)
    THEN NoLinks
    ELSE LinkList(FALSE, filter_job_links(cfg, extract_links(value)))

-----------------------------------------------------------------------------
(* main: command line and configuration.                                   *)

\* the text given for --target-date.  fmt "none": option absent; "empty":
\* the empty string; "text": text that is not of the form YYYY-MM-DD;
\* "iso": text of that form with month mon and day day
DateString(f, m, d) == [fmt |-> f, mon |-> m, day |-> d]

NoneString == DateString("none", 0, 0)

EmptyString == DateString("empty", 0, 0)

\* datetime.date.fromisoformat: ValueError unless the text is a calendar date
date_fromisoformat(str) ==
    IF str.fmt = "iso" /\ str.mon \in 1..12 /\ str.day \in 1..DaysInMonth(str.mon)
    THEN [ok |-> TRUE, date |-> [mon |-> str.mon, day |-> str.day]]
    ELSE [ok |-> FALSE, date |-> NoDate]

\* faulty variant: the text is split into fields without the calendar check
parse_target_date_unchecked(target_date_str) ==
    IF target_date_str.fmt = "iso"
    THEN [mon |-> target_date_str.mon, day |-> target_date_str.day]
    ELSE NoDate

\* DateUtils.parse_target_date
parse_target_date(target_date_str) ==
    IF target_date_str.fmt \in {"none", "empty"}
    THEN NoDate
    ELSE IF date_fromisoformat(target_date_str).ok
         THEN date_fromisoformat(target_date_str).date
         ELSE NoDate             \* except ValueError: "Ignoring it."; return None

Args(target_date, concurrency) == [target_date |-> target_date, concurrency |-> concurrency]

\* argparse default of --concurrency
DefaultConcurrency == 5

DefaultArgs == Args(NoneString, DefaultConcurrency)

\* faulty variant: only None counts as a failed discovery
no_links_only_none(l) == l.is_none

\* main: "if not links"
no_links(l) == l.is_none \/ l.list = <<>>

-----------------------------------------------------------------------------
(* CrawlerConfig *)

\* faulty variant: __post_init__ leaves the concurrency as given
CrawlerConfig_unclamped(target_date, concurrency, max_jobs) ==
    [target_date |-> target_date, concurrency |-> concurrency,
     max_jobs |-> max_jobs, excluded_urls |-> DefaultExcludedUrls]

\* __post_init__: self.concurrency = max(1, self.concurrency)
CrawlerConfig(target_date, concurrency, max_jobs) ==
    [target_date |-> target_date, concurrency |-> Max(1, concurrency),
     max_jobs |-> max_jobs, excluded_urls |-> DefaultExcludedUrls]

RollingWindow(cfg) == cfg.target_date = NoDate

-----------------------------------------------------------------------------
(* Inputs of a run. *)

\* the clock during a run: 10 May, 01:00 (the cutoff is then 10 April, 01:00)
RunClock == [mon |-> 5, day |-> 10, hr |-> 1]

\* --target-date choices: none (rolling window) or 1 May
TargetDates == {NoDate, [mon |-> 5, day |-> 1]}

\* what one candidate's fetch can give during a run
RunTimeStrings ==
    {TimeString("date", 1, 1, 0),       \* older than the cutoff
     TimeString("date", 5, 1, 0),       \* within the last month
     TimeString("offset", 1, 1, 0),     \* older than the cutoff, with UTC offset
     GarbageTime}

RunFetches ==
    {Fetch("raise", NoPage), Fetch("nohtml", NoPage),
     Fetch("html", Page(FALSE, FALSE, FALSE, NoneTime, NoneTime)),
     Fetch("html", Page(TRUE, TRUE, FALSE, NoneTime, TimeString("date", 5, 1, 0)))}
    \cup {Fetch("html", Page(TRUE, TRUE, TRUE, tv, GarbageTime)) : tv \in RunTimeStrings}

-----------------------------------------------------------------------------
(* The orchestrators: scrape_all_jobs_async (run by asyncio.run in          *)
(* scrape_all_jobs) and scrape_all_jobs_sync.                               *)

\* faulty variant: the list is not truncated
jobs_to_scrape_untruncated == job_links

\* jobs_to_scrape = job_links[:self.config.max_jobs]
jobs_to_scrape == SubSeq(job_links, 1, Min(Len(job_links), config.max_jobs))

total == Len(jobs_to_scrape)

Candidates == 1..total

Queued == {i \in Candidates : st[i] = "Queued"}

\* candidates inside a worker thread
Running == {i \in Candidates : st[i] = "Dispatched"}

\* candidates holding a worker slot: running, or (async) finished in the
\* thread while the task has not yet left "async with semaphore"
InFlight == {i \in Candidates : st[i] \in {"Dispatched", "Fetched"}}

Handled == {i \in Candidates : st[i] = "Handled"}

\* asyncio.Semaphore(self.config.concurrency)
semaphore_initial(cfg) == cfg.concurrency

\* faulty variant: one worker thread too many
max_workers_off_by_one(cfg) == cfg.concurrency + 1

\* ThreadPoolExecutor(max_workers=self.config.concurrency)
max_workers(cfg) == cfg.concurrency

\* the run-level halt: should_stop (async), the cancellation branch entered (sync)
Halted == should_stop \/ cursor > 0

\* faulty variant: a page without <article> is treated as not fetched
usable_requires_article(r) == ~r.is_none /\ r.article_found

\* faulty variant: the handler does not test the result
usable_accepts_none(r) == TRUE

\* the handler's test "result and isinstance(result, dict) and result.get('html_content')"
usable(r) == ~r.is_none /\ r.html_content # "none"

\* "result.get('stop_crawling', False) and self.config.target_date is None"
halts(cfg, r) == r.stop_crawling /\ cfg.target_date = NoDate

\* faulty variant: save_result without the target-date test
skips_save_never(cfg, r) == FALSE

\* save_result: "if self.config.target_date is not None and not
\* result.get('matches_target_date', False): return"
skips_save(cfg, r) == cfg.target_date # NoDate /\ ~r.matches_target_date

\* the extraction stage has not started
ExtractStageIdle ==
    /\ md_files = <<>>
    /\ tasks = <<>>
    /\ extract_calls = <<>>
    /\ successful_files = <<>>
    /\ failed_files = <<>>

\* the upload stage has not started
UploadStageIdle ==
    /\ json_files = <<>>
    /\ uploaded = <<>>
    /\ successful_uploads = 0
    /\ exit_status = -1

\* the later stages have not started
StagesIdle == ExtractStageIdle /\ UploadStageIdle

Init ==
    /\ StagesIdle
    /\ args = DefaultArgs
    /\ map_result = MapResponse("ok", NoneValue)
    /\ links = NoLinks
    /\ orchestrator \in {"async", "sync"}
    /\ config \in {CrawlerConfig(t, c, m) :
                     t \in TargetDates, c \in 0..MaxConcurrency,
                     m \in (1..(MaxLinks - 1)) \cup {DefaultMaxJobs}}
    /\ now = RunClock
    /\ job_links = [i \in 1..MaxLinks |-> i]
    /\ st = [i \in Candidates |-> "Queued"]
    /\ result = [i \in Candidates |-> NoneResult]
    /\ done = <<>>
    /\ scraped_jobs = <<>>
    /\ sink = [i \in Candidates |-> "unused"]
    /\ should_stop = FALSE
    /\ cursor = 0
    /\ awaiting = FALSE
    /\ semaphore = semaphore_initial(config)
    /\ pc = IF orchestrator = "async" THEN "start" ELSE "loop"
    /\ halt_inflight = {}
    /\ eval_in = [config |-> CrawlerConfig(NoDate, 1, DefaultMaxJobs),
                  fetch |-> Fetch("raise", NoPage), clock |-> RunClock]
    /\ eval_out = NoneResult

-----------------------------------------------------------------------------
(* Worker side. *)

\* async: the first "await coro" of the completion loop lets every task run;
\* as_completed wraps set(tasks), so any semaphore_initial of them enter
\* "async with semaphore" and reach the executor, the others wait
StartTasks ==
    /\ orchestrator = "async"
    /\ pc = "start"
    /\ \E S \in SUBSET Candidates :
        /\ Cardinality(S) = Min(total, semaphore)
        /\ st' = [i \in Candidates |-> IF i \in S THEN "Dispatched" ELSE "Queued"]
        /\ semaphore' = semaphore - Cardinality(S)
    /\ pc' = "loop"
    /\ awaiting' = TRUE
    /\ UNCHANGED <<stage_vars, args, map_result, links, orchestrator, config, now, job_links, result, done, scraped_jobs,
                   sink, should_stop, cursor, halt_inflight, eval_in, eval_out>>

\* sync: a free worker thread of the pool takes the next pending future of
\* its FIFO work queue (cancelled ones are skipped); it keeps doing so while
\* the with-block waits in shutdown(wait=True)
SyncDispatch(i) ==
    /\ orchestrator = "sync"
    /\ pc \in {"loop", "cancel", "shutdown", "raising"}
    /\ i \in Queued
    /\ \A j \in Queued : i <= j
    /\ Cardinality(Running) < max_workers(config)
    /\ st' = [st EXCEPT ![i] = "Dispatched"]
    /\ UNCHANGED <<stage_vars, args, map_result, links, orchestrator, config, now, job_links, result, done, scraped_jobs,
                   sink, should_stop, cursor, awaiting, semaphore, pc, halt_inflight,
                   eval_in, eval_out>>

\* faulty variant: the worker thread appends its own result to the accepted list
WorkerFinish_saves(i) ==
    /\ i \in Running
    /\ orchestrator = "async" => pc = "shutdown"
    /\ \E f \in RunFetches :
        result' = [result EXCEPT ![i] = scrape_job_page(config, f, now)]
    /\ st' = [st EXCEPT ![i] = IF orchestrator = "async" THEN "Fetched" ELSE "Completed"]
    /\ scraped_jobs' = Append(scraped_jobs, i)
    /\ UNCHANGED <<stage_vars, args, map_result, links, orchestrator, config, now, job_links, done,
                   sink, should_stop, cursor, awaiting, semaphore, pc, halt_inflight,
                   eval_in, eval_out>>

\* a worker thread returns from scrape_job_page(url).  sync: the future is
\* finished.  async: the result reaches the orchestrator only when the task
\* resumes on the event loop (TaskResume); while the with-block blocks the
\* loop in shutdown(wait=True) the thread just ends and the task never resumes
WorkerFinish(i) ==
    /\ i \in Running
    /\ orchestrator = "async" => pc = "shutdown"
    /\ \E f \in RunFetches :
        result' = [result EXCEPT ![i] = scrape_job_page(config, f, now)]
    /\ st' = [st EXCEPT ![i] = IF orchestrator = "async" THEN "Fetched" ELSE "Completed"]
    /\ UNCHANGED <<stage_vars, args, map_result, links, orchestrator, config, now, job_links, done, scraped_jobs, sink,
                   should_stop, cursor, awaiting, semaphore, pc, halt_inflight,
                   eval_in, eval_out>>

\* async, event loop running (the completion loop is suspended): the worker
\* thread of candidate i has returned, its task resumes, leaves
\* "async with semaphore" (which hands the slot to the next waiting task,
\* if any) and returns; as_completed queues its result
TaskResume(i) ==
    /\ orchestrator = "async"
    /\ pc = "loop"
    /\ awaiting
    /\ i \in Running
    /\ \E f \in RunFetches :
        result' = [result EXCEPT ![i] = scrape_job_page(config, f, now)]
    /\ done' = Append(done, i)
    /\ IF Queued = {}
       THEN /\ st' = [st EXCEPT ![i] = "Completed"]
            /\ semaphore' = semaphore + 1
       ELSE /\ \E j \in Queued :
                 st' = [st EXCEPT ![i] = "Completed", ![j] = "Dispatched"]
            /\ semaphore' = semaphore
    /\ UNCHANGED <<stage_vars, args, map_result, links, orchestrator, config, now, job_links, scraped_jobs, sink,
                   should_stop, cursor, awaiting, pc, halt_inflight, eval_in, eval_out>>

-----------------------------------------------------------------------------
(* Completion handler: the body of the "for ... in as_completed" loops.     *)

\* faulty variant: a failed fetch takes the early-stop branch
handler_outcome_halts_on_failure(cfg, r, sink_ok) ==
    IF ~usable(r) \/ halts(cfg, r) THEN "halt"
    ELSE IF skips_save(cfg, r) THEN "skip"
    ELSE IF sink_ok THEN "saved" ELSE "error"

\* the step of the loop body for candidate i with result r, given whether
\* save_job_files succeeds: "none" nothing to do, "halt" the early stop,
\* "skip" save_result returns early, "saved" appended, "error" the sink raised
handler_outcome(cfg, r, sink_ok) ==
    IF ~usable(r) THEN "none"
    ELSE IF halts(cfg, r) THEN "halt"
    ELSE IF skips_save(cfg, r) THEN "skip"
    ELSE IF sink_ok THEN "saved" ELSE "error"

\* faulty variant: the accepted list is kept in submission order
append_job_in_submission_order(jobs, i, outcome) ==
    IF outcome = "saved"
    THEN SelectSeq(jobs, LAMBDA k : k < i) \o <<i>> \o SelectSeq(jobs, LAMBDA k : k > i)
    ELSE jobs

\* faulty variant: the entry is appended by save_result and again by the loop
append_job_twice(jobs, i, outcome) ==
    IF outcome = "saved" THEN jobs \o <<i, i>> ELSE jobs

\* scraped_jobs.append(job_info), reached only after save_job_files returned
append_job(jobs, i, outcome) == IF outcome = "saved" THEN Append(jobs, i) ELSE jobs

\* HtmlProcessor.html_to_markdown: html2text renders the markup as text
html_to_markdown(html_content) ==
    CASE html_content = "article" -> "article_md"
      [] html_content = "body" -> "body_md"
      [] OTHER -> "empty_md"

\* faulty variant: the markdown is rendered from the whole page
markdown_content_of_page(r) == html_to_markdown("body")

\* save_result: markdown_content = self.html_processor.html_to_markdown(html_content)
markdown_content(r) == html_to_markdown(r.html_content)

\* the markdown file of candidate i after save_job_files: its content when
\* the files were written, "error" when the call raised
sink_after(s, i, r, outcome) ==
    CASE outcome = "saved" -> [s EXCEPT ![i] = markdown_content(r)]
      [] outcome = "error" -> [s EXCEPT ![i] = "error"]
      [] OTHER -> s

\* async: one iteration of "for coro in asyncio.as_completed(tasks)".  On a
\* halt verdict should_stop is set; "task.done()" then raises AttributeError
\* (tasks holds coroutine objects), which the except clause swallows, and the
\* next iteration breaks.  A sink error is swallowed by the same clause.
AsyncHandle ==
    /\ orchestrator = "async"
    /\ pc = "loop"
    /\ done # <<>>
    /\ LET i == Head(done) IN
       \E sink_ok \in BOOLEAN :
         LET outcome == handler_outcome(config, result[i], sink_ok) IN
         /\ st' = [st EXCEPT ![i] = "Handled"]
         /\ done' = Tail(done)
         /\ scraped_jobs' = append_job(scraped_jobs, i, outcome)
         /\ sink' = sink_after(sink, i, result[i], outcome)
         /\ should_stop' = (outcome = "halt")
         /\ halt_inflight' = IF outcome = "halt" THEN Running ELSE halt_inflight
         /\ pc' = IF outcome = "halt" \/ Handled \cup {i} = Candidates
                  THEN "shutdown" ELSE "loop"
         /\ awaiting' = (Tail(done) = <<>>)
    /\ UNCHANGED <<stage_vars, args, map_result, links, orchestrator, config, now, job_links, result, cursor, semaphore,
                   eval_in, eval_out>>

\* sync: one iteration of "for idx, future in enumerate(as_completed(...))".
\* A halt verdict starts the cancellation loop; a sink error propagates out
\* of the with-block.
SyncHandle(i) ==
    /\ orchestrator = "sync"
    /\ pc = "loop"
    /\ st[i] = "Completed"
    /\ \E sink_ok \in BOOLEAN :
         LET outcome == handler_outcome(config, result[i], sink_ok) IN
         /\ st' = [st EXCEPT ![i] = "Handled"]
         /\ scraped_jobs' = append_job(scraped_jobs, i, outcome)
         /\ sink' = sink_after(sink, i, result[i], outcome)
         /\ cursor' = IF outcome = "halt" THEN 1 ELSE cursor
         /\ halt_inflight' = IF outcome = "halt" THEN Running ELSE halt_inflight
         /\ pc' = CASE outcome = "halt" -> "cancel"
                    [] outcome = "error" -> "raising"
                    [] Handled \cup {i} = Candidates -> "shutdown"
                    [] OTHER -> "loop"
    /\ UNCHANGED <<stage_vars, args, map_result, links, orchestrator, config, now, job_links, result, done, should_stop,
                   awaiting, semaphore, eval_in, eval_out>>

\* faulty variant: cancelling also stops a candidate that is in a worker
future_cancel_forced(state) ==
    IF state \in {"Queued", "Dispatched"} THEN "Cancelled" ELSE state

\* Future.cancel() / Task.cancel(): only a pending one becomes cancelled
future_cancel(state) == IF state = "Queued" THEN "Cancelled" ELSE state

\* faulty variant: the break is missing
after_cancel_loop_without_break == "loop"

\* sync: where the handler goes after the cancellation loop: "break"
after_cancel_loop == "shutdown"

\* sync: one iteration of "for f in future_to_url: if not f.done(): f.cancel()";
\* cancel() succeeds on a pending future only; after the last one, break
CancelStep ==
    /\ orchestrator = "sync"
    /\ pc = "cancel"
    /\ st' = [st EXCEPT ![cursor] = future_cancel(st[cursor])]
    /\ cursor' = cursor + 1
    /\ pc' = IF cursor = total THEN after_cancel_loop ELSE "cancel"
    /\ UNCHANGED <<stage_vars, args, map_result, links, orchestrator, config, now, job_links, result, done, scraped_jobs,
                   sink, should_stop, awaiting, semaphore, halt_inflight,
                   eval_in, eval_out>>

\* the with-block ends: executor.shutdown(wait=True) has waited for the
\* worker threads, and the orchestrator returns scraped_jobs.  async:
\* asyncio.run then cancels the tasks still waiting for the semaphore.
Return ==
    /\ pc = "shutdown"
    /\ Running = {}
    /\ orchestrator = "sync" => Queued = {}
    /\ pc' = "returned"
    /\ st' = [i \in Candidates |-> future_cancel(st[i])]
    /\ UNCHANGED <<stage_vars, args, map_result, links, orchestrator, config, now, job_links, result, done, scraped_jobs,
                   sink, should_stop, cursor, awaiting, semaphore, halt_inflight,
                   eval_in, eval_out>>

\* sync: the sink's exception leaves scrape_all_jobs_sync once the pool has
\* drained its queue
Raise ==
    /\ pc = "raising"
    /\ Running = {}
    /\ Queued = {}
    /\ pc' = "raised"
    /\ UNCHANGED <<stage_vars, args, map_result, links, orchestrator, config, now, job_links, st, result, done,
                   scraped_jobs, sink, should_stop, cursor, awaiting, semaphore,
                   halt_inflight, eval_in, eval_out>>

Next ==
    \/ StartTasks
    \/ \E i \in Candidates : SyncDispatch(i)
    \/ \E i \in Candidates : WorkerFinish(i)
    \/ \E i \in Candidates : TaskResume(i)
    \/ AsyncHandle
    \/ \E i \in Candidates : SyncHandle(i)
    \/ CancelStep
    \/ Return
    \/ Raise

Spec == Init /\ [][Next]_vars

\* the orchestrator keeps running: worker threads return, the event loop and
\* the completion loop take their next step
FairSpec == Spec /\ WF_vars(Next)

-----------------------------------------------------------------------------
(* The stopping policy on its own: one call of scrape_job_page on inputs    *)
(* drawn from bounded sets.                                                 *)

PolicyClocks ==
    {[mon |-> 5, day |-> 10, hr |-> 0], [mon |-> 5, day |-> 10, hr |-> 1],
     [mon |-> 3, day |-> 31, hr |-> 0], [mon |-> 3, day |-> 31, hr |-> 1]}

PolicyDates ==
    {[mon |-> 2, day |-> 27], [mon |-> 2, day |-> 28], [mon |-> 3, day |-> 1],
     [mon |-> 4, day |-> 9], [mon |-> 4, day |-> 10], [mon |-> 4, day |-> 11],
     [mon |-> 5, day |-> 1]}

PolicyTimeStrings ==
    {EmptyTime, GarbageTime}
    \cup {TimeString("date", d.mon, d.day, 0) : d \in PolicyDates}
    \cup {TimeString(f, d.mon, d.day, h) :
            f \in {"naive", "offset"}, d \in PolicyDates, h \in 0..1}

PolicyFetches ==
    {Fetch("raise", NoPage), Fetch("falsy", NoPage), Fetch("nohtml", NoPage),
     Fetch("html", Page(FALSE, FALSE, FALSE, NoneTime, NoneTime)),
     Fetch("html", Page(TRUE, FALSE, FALSE, NoneTime, NoneTime))}
    \cup {Fetch("html", Page(TRUE, TRUE, TRUE, tv, GarbageTime)) : tv \in PolicyTimeStrings}
    \cup {Fetch("html", Page(TRUE, TRUE, FALSE, NoneTime, tv)) : tv \in PolicyTimeStrings}

PolicyTargets == {NoDate, [mon |-> 5, day |-> 1], [mon |-> 2, day |-> 28]}

PolicyInit ==
    /\ StagesIdle
    /\ args = DefaultArgs
    /\ map_result = MapResponse("ok", NoneValue)
    /\ links = NoLinks
    /\ orchestrator = "sync"
    /\ config = CrawlerConfig(NoDate, 1, DefaultMaxJobs)
    /\ now = RunClock
    /\ job_links = <<>>
    /\ st = <<>>
    /\ result = <<>>
    /\ done = <<>>
    /\ scraped_jobs = <<>>
    /\ sink = <<>>
    /\ should_stop = FALSE
    /\ cursor = 0
    /\ awaiting = FALSE
    /\ semaphore = 1
    /\ pc = "policy_call"
    /\ halt_inflight = {}
    /\ eval_in \in [config : {CrawlerConfig(t, 1, DefaultMaxJobs) : t \in PolicyTargets},
                    fetch : PolicyFetches, clock : PolicyClocks]
    /\ eval_out = NoneResult

\* result = self.scrape_job_page(url)
Evaluate ==
    /\ pc = "policy_call"
    /\ eval_out' = scrape_job_page(eval_in.config, eval_in.fetch, eval_in.clock)
    /\ pc' = "policy_return"
    /\ UNCHANGED <<stage_vars, args, map_result, links, orchestrator, config, now, job_links, st, result, done,
                   scraped_jobs, sink, should_stop, cursor, awaiting, semaphore,
                   halt_inflight, eval_in>>

PolicyNext == Evaluate

PolicySpec == PolicyInit /\ [][PolicyNext]_vars

-----------------------------------------------------------------------------
(* main up to the call of scrape_all_jobs: configuration and discovery on  *)
(* inputs drawn from bounded sets.                                         *)

\* longest list of links in a mapping response
MaxMapLinks == 2

MainTargetStrings ==
    {NoneString, EmptyString, DateString("text", 0, 0), DateString("iso", 5, 1),
     DateString("iso", 2, 30), DateString("iso", 13, 1)}

\* lists of at most n elements of S
ListsUpTo(S, n) == UNION {[1..k -> S] : k \in 0..n}

MainLinkResults ==
    {LinkResult(FALSE, <<>>), LinkResult(TRUE, <<>>)}
    \cup {LinkResult(TRUE, u) : u \in MapUrls}

MainValues ==
    {NoneValue, MapValue("other", <<>>, NoEntries, <<>>),
     MapValue("dict", <<>>, NoEntries, <<>>),
     MapValue("dict", <<>>, [k \in {"urls", "data"} |-> IF k = "urls" THEN <<>> ELSE <<JobA>>], <<>>)}
    \cup {MapValue("object", l, NoEntries, <<>>) : l \in ListsUpTo(MainLinkResults, MaxMapLinks)}
    \cup {MapValue("dict", <<>>, [k \in {key} |-> l], <<>>) :
            key \in {"links", "results", "other"}, l \in ListsUpTo(MapUrls, 1)}
    \cup {MapValue("list", <<>>, NoEntries, l) : l \in ListsUpTo(MapUrls, MaxMapLinks)}

MainResponses ==
    {MapResponse("connection_error", NoneValue), MapResponse("error", NoneValue)}
    \cup {MapResponse("ok", v) : v \in MainValues}

MainInit ==
    /\ StagesIdle
    /\ args \in {Args(t, c) : t \in MainTargetStrings, c \in (-1)..MaxConcurrency}
    /\ map_result \in MainResponses
    /\ links = NoLinks
    /\ orchestrator = "async"
    /\ config = CrawlerConfig(NoDate, DefaultConcurrency, DefaultMaxJobs)
    /\ now = RunClock
    /\ job_links = <<>>
    /\ st = <<>>
    /\ result = <<>>
    /\ done = <<>>
    /\ scraped_jobs = <<>>
    /\ sink = <<>>
    /\ should_stop = FALSE
    /\ cursor = 0
    /\ awaiting = FALSE
    /\ semaphore = 0
    /\ pc = "main_args"
    /\ halt_inflight = {}
    /\ eval_in = [config |-> CrawlerConfig(NoDate, 1, DefaultMaxJobs),
                  fetch |-> Fetch("raise", NoPage), clock |-> RunClock]
    /\ eval_out = NoneResult

\* config = CrawlerConfig(base_url, target_date=parse_target_date(...),
\* concurrency=args.concurrency); crawler = JobscallMeCrawler(config)
MainConfigure ==
    /\ pc = "main_args"
    /\ config' = CrawlerConfig(parse_target_date(args.target_date), args.concurrency,
                               DefaultMaxJobs)
    /\ pc' = "main_discover"
    /\ UNCHANGED <<stage_vars, args, map_result, links, orchestrator, now, job_links, st, result,
                   done, scraped_jobs, sink, should_stop, cursor, awaiting, semaphore,
                   halt_inflight, eval_in, eval_out>>

\* links = crawler.crawl_jobscall_me()
MainDiscover ==
    /\ pc = "main_discover"
    /\ links' = crawl_jobscall_me(config, map_result)
    /\ pc' = "main_links"
    /\ UNCHANGED <<stage_vars, args, map_result, orchestrator, config, now, job_links, st, result,
                   done, scraped_jobs, sink, should_stop, cursor, awaiting, semaphore,
                   halt_inflight, eval_in, eval_out>>

\* if not links: print("Failed to discover job links"); return
MainAbort ==
    /\ pc = "main_links"
    /\ no_links(links)
    /\ pc' = "main_returned"
    /\ UNCHANGED <<stage_vars, args, map_result, links, orchestrator, config, now, job_links, st,
                   result, done, scraped_jobs, sink, should_stop, cursor, awaiting,
                   semaphore, halt_inflight, eval_in, eval_out>>

\* crawler.scrape_all_jobs(links) is entered with the discovered links
MainScrape ==
    /\ pc = "main_links"
    /\ ~no_links(links)
    /\ job_links' = links.list
    /\ pc' = "main_scrape"
    /\ UNCHANGED <<stage_vars, args, map_result, links, orchestrator, config, now, st, result,
                   done, scraped_jobs, sink, should_stop, cursor, awaiting, semaphore,
                   halt_inflight, eval_in, eval_out>>

MainNext == MainConfigure \/ MainDiscover \/ MainAbort \/ MainScrape

MainSpec == MainInit /\ [][MainNext]_vars

-----------------------------------------------------------------------------
(* Link discovery functions on their own: one call of filter_job_links or  *)
(* of extract_links on inputs drawn from bounded sets.                     *)

\* the crawler before a run
CrawlerIdle ==
    /\ args = DefaultArgs
    /\ map_result = MapResponse("ok", NoneValue)
    /\ links = NoLinks
    /\ orchestrator = "sync"
    /\ config = CrawlerConfig(NoDate, 1, DefaultMaxJobs)
    /\ now = RunClock
    /\ job_links = <<>>
    /\ st = <<>>
    /\ result = <<>>
    /\ done = <<>>
    /\ scraped_jobs = <<>>
    /\ sink = <<>>
    /\ should_stop = FALSE
    /\ cursor = 0
    /\ awaiting = FALSE
    /\ halt_inflight = {}

\* the variables of a run and of the later stages, unused by a function harness
HarnessIdle ==
    /\ CrawlerIdle
    /\ semaphore = 1
    /\ StagesIdle

\* URLs given to the filter: those of a mapping response and URLs that hold
\* the marker twice, or a listing name as their last segment
FilterUrls ==
    MapUrls \cup
    {Url(<<"/", "job", "/", "a", "/", "job", "/", "b">>),
     Url(<<"/", "job", "/", "job", "/", "a">>),
     Url(<<"/", "job", "/", "category">>),
     Url(<<"/", "a", "/", "job", "/", "b">>)}

\* CrawlerConfig(excluded_urls=...)
FilterExclusions ==
    {DefaultExcludedUrls, <<>>, << <<"/", "a">> >>,
     << <<"b">>, <<"/", "job", "/", "jobscallmefb">> >>}

FilterConfigs ==
    {[CrawlerConfig(NoDate, 1, DefaultMaxJobs) EXCEPT !.excluded_urls = x] :
        x \in FilterExclusions}

ExtractKeys == {"links", "urls", "data", "results", "other"}

ExtractLists == {<<>>, <<JobA>>, <<JobB, JobA>>}

ExtractValues ==
    {NoneValue, MapValue("other", <<>>, NoEntries, <<>>)}
    \cup {MapValue("object", l, NoEntries, <<>>) : l \in ListsUpTo(MainLinkResults, MaxMapLinks)}
    \cup {MapValue("dict_object", l, [k \in {"links"} |-> <<JobB>>], <<>>) :
            l \in ListsUpTo(MainLinkResults, 1)}
    \cup {MapValue("list_object", l, NoEntries, <<JobB>>) : l \in ListsUpTo(MainLinkResults, 1)}
    \cup UNION {{MapValue("dict", <<>>, e, <<>>) : e \in [K -> ExtractLists]} :
                  K \in {K \in SUBSET ExtractKeys : Cardinality(K) <= 2}}
    \cup {MapValue("list", <<>>, NoEntries, l) : l \in ListsUpTo(MapUrls, MaxMapLinks)}

\* save_job_files: url_path, the part of the URL after its last '/job/'
url_path(job_url, index_hint) ==
    IF Contains(job_url, JobMarker)
    THEN split_last(job_url, JobMarker)
    ELSE <<"job_", index_hint>>

\* md_filename = f"{url_path}.md"
md_filename(job_url, index_hint) == url_path(job_url, index_hint) \o <<".md">>

\* Path(markdown_file_path).stem: the file name without its last suffix
path_stem(filename) ==
    IF filename # <<>> /\ filename[Len(filename)] = ".md"
    THEN SubSeq(filename, 1, Len(filename) - 1)
    ELSE filename

\* job.job_url = f"https://www.jobscall.me/job/{md_filename}"
rebuilt_job_url(stem) == <<"site", "/", "job", "/">> \o stem

\* each filtered link with the markdown file the crawler saves for it and the
\* job_url the extraction stage gives the jobs of that file
saved_and_rebuilt(cfg, all_links) ==
    LET job_urls == filter_job_links(cfg, all_links)
    IN  [k \in DOMAIN job_urls |->
           [url |-> job_urls[k],
            md_filename |-> md_filename(job_urls[k], k),
            job_url |-> rebuilt_job_url(path_stem(md_filename(job_urls[k], k)))]]

DiscoveryInit ==
    /\ HarnessIdle
    /\ \/ /\ pc \in {"filter_call", "save_call"}
          /\ eval_in \in [config : FilterConfigs,
                          all_links : ListsUpTo(FilterUrls, MaxMapLinks)]
       \/ /\ pc = "extract_links_call"
          /\ eval_in \in [value : ExtractValues]
    /\ eval_out = <<>>

\* filtered_links = self.filter_job_links(all_links)
ApplyFilter ==
    /\ pc = "filter_call"
    /\ eval_out' = filter_job_links(eval_in.config, eval_in.all_links)
    /\ pc' = "filter_return"
    /\ UNCHANGED <<stage_vars, args, map_result, links, orchestrator, config, now, job_links, st,
                   result, done, scraped_jobs, sink, should_stop, cursor, awaiting,
                   semaphore, halt_inflight, eval_in>>

\* all_links = self.extract_links(map_result)
ApplyExtractLinks ==
    /\ pc = "extract_links_call"
    /\ eval_out' = extract_links(eval_in.value)
    /\ pc' = "extract_links_return"
    /\ UNCHANGED <<stage_vars, args, map_result, links, orchestrator, config, now, job_links, st,
                   result, done, scraped_jobs, sink, should_stop, cursor, awaiting,
                   semaphore, halt_inflight, eval_in>>

\* the filtered links are saved by the crawler and their files read back by
\* extract_job_data_async
ApplySaveAndRebuild ==
    /\ pc = "save_call"
    /\ eval_out' = saved_and_rebuilt(eval_in.config, eval_in.all_links)
    /\ pc' = "save_return"
    /\ UNCHANGED <<stage_vars, args, map_result, links, orchestrator, config, now, job_links, st,
                   result, done, scraped_jobs, sink, should_stop, cursor, awaiting,
                   semaphore, halt_inflight, eval_in>>

DiscoveryNext == ApplyFilter \/ ApplyExtractLinks \/ ApplySaveAndRebuild

DiscoverySpec == DiscoveryInit /\ [][DiscoveryNext]_vars

-----------------------------------------------------------------------------
(* The extractor on its own: one call of extract_article_content.          *)

ExtractTimeStrings ==
    {EmptyTime, GarbageTime, TimeString("date", 5, 1, 0), TimeString("offset", 1, 1, 0)}

ExtractPages ==
    {[Page(a, t, h, d, x) EXCEPT !.outside = o, !.raises = r] :
        a \in BOOLEAN, t \in BOOLEAN, h \in BOOLEAN, r \in BOOLEAN,
        d \in ExtractTimeStrings, x \in ExtractTimeStrings,
        o \in {NoneTime, TimeString("date", 1, 1, 0)}}

ExtractInit ==
    /\ HarnessIdle
    /\ pc = "extract_call"
    /\ eval_in \in [page : ExtractPages]
    /\ eval_out = NoneResult

\* processed_result = self.html_processor.extract_article_content(html_content)
ApplyExtract ==
    /\ pc = "extract_call"
    /\ eval_out' = extract_article_content(eval_in.page)
    /\ pc' = "extract_return"
    /\ UNCHANGED <<stage_vars, args, map_result, links, orchestrator, config, now, job_links, st,
                   result, done, scraped_jobs, sink, should_stop, cursor, awaiting,
                   semaphore, halt_inflight, eval_in>>

ExtractNext == ApplyExtract

ExtractSpec == ExtractInit /\ [][ExtractNext]_vars

-----------------------------------------------------------------------------
(* Properties. *)

Accepted == {scraped_jobs[k] : k \in DOMAIN scraped_jobs}

\* the timestamp string of the posting a fetch returns, NoneTime if it has none
PostedAt(fetch) ==
    IF fetch.kind = "html" /\ fetch.page.article /\ fetch.page.time_tag
    THEN time_tag_value(fetch.page) ELSE NoneTime

\* the posting date is absent or does not parse
UnknownDate(tv) == ~Truthy(tv) \/ ~parser_parse(tv).ok

\* the posting's date-time is strictly earlier than now minus one month
OlderThanCutoff(tv, clock) ==
    parser_parse(tv).ok /\ DtBefore(parser_parse(tv), SubtractOneMonth(clock))

\* C1: in every reachable state of either orchestrator the number of
\* candidates dispatched to a worker and not yet completed is at most
\* config.concurrency
C1_AtMostConcurrency == Cardinality(InFlight) <= config.concurrency

C1_Witness ==
    /\ pc \in {"loop", "cancel", "shutdown", "raising"}
    /\ config.concurrency = 2
    /\ Cardinality(InFlight) = 2
    /\ Queued # {}

\* C2: once the handler has observed a halt verdict, no candidate still
\* queued is dispatched afterwards; it stays queued until it is cancelled
C2_HaltMonotonic ==
    [][\A i \in DOMAIN st :
         (Halted /\ st[i] = "Queued") => st'[i] \in {"Queued", "Cancelled"}]_vars

\* C3: once the run has halted the accepted list never changes again
C3_AcceptedFrozenAfterHalt == [][Halted => scraped_jobs' = scraped_jobs]_vars

\* a candidate that was in a worker when the halt was seen has completed
\* with a result that would have been saved, and the run has returned
\* without it
C3_Witness ==
    /\ pc = "returned"
    /\ Halted
    /\ \E i \in halt_inflight :
        /\ st[i] \in {"Fetched", "Completed"}
        /\ handler_outcome(config, result[i], TRUE) = "saved"
        /\ i \notin Accepted

\* C4: a posting whose date is absent or unparseable never gets a stop
\* verdict, in either mode, and the handler never halts the run on it
C4_UnknownDateNeverStops ==
    (pc = "policy_return" /\ UnknownDate(PostedAt(eval_in.fetch)))
        => /\ ~eval_out.stop_crawling
           /\ \A sink_ok \in BOOLEAN :
                handler_outcome(eval_in.config, eval_out, sink_ok) # "halt"

C4_Witness ==
    /\ pc = "policy_return"
    /\ eval_in.fetch.kind = "html"
    /\ PostedAt(eval_in.fetch) = GarbageTime
    /\ RollingWindow(eval_in.config)
    /\ handler_outcome(eval_in.config, eval_out, TRUE) = "saved"

\* C5: in rolling-window mode every posting whose timestamp parses, with or
\* without UTC offset, to a date-time strictly earlier than the cutoff gets
\* accept = false and haltFurtherWork = true
C5_OldPostingHalts ==
    (/\ pc = "policy_return"
     /\ RollingWindow(eval_in.config)
     /\ OlderThanCutoff(PostedAt(eval_in.fetch), eval_in.clock))
        => eval_out.stop_crawling /\ ~eval_out.matches_target_date

\* C6: in rolling-window mode every posting whose parsed date-time is at or
\* after the cutoff gets accept = true and haltFurtherWork = false
C6_FreshPostingAccepted ==
    (/\ pc = "policy_return"
     /\ RollingWindow(eval_in.config)
     /\ parser_parse(PostedAt(eval_in.fetch)).ok
     /\ ~OlderThanCutoff(PostedAt(eval_in.fetch), eval_in.clock))
        => ~eval_out.stop_crawling /\ eval_out.matches_target_date

\* the posting's date-time equals the cutoff exactly
C6_Witness ==
    /\ pc = "policy_return"
    /\ RollingWindow(eval_in.config)
    /\ PostedAt(eval_in.fetch).fmt = "naive"
    /\ LET parsed == parser_parse(PostedAt(eval_in.fetch))
           cutoff == SubtractOneMonth(eval_in.clock)
       IN  DateOf(parsed) = DateOf(cutoff) /\ parsed.hr = cutoff.hr
    /\ ~eval_out.stop_crawling
    /\ eval_out.matches_target_date

\* the handler processes the completion of candidate i in this step
Handles(i) == st[i] = "Completed" /\ st'[i] = "Handled"

TargetDateMode == pc # "policy_call" /\ pc # "policy_return" /\ ~RollingWindow(config)

\* every candidate has been through a worker
AllWorkersDone == \A i \in Candidates : st[i] \in {"Fetched", "Completed", "Handled"}

\* C8: in target-date mode no verdict has haltFurtherWork = true, the run
\* never halts, no candidate is ever cancelled, and every candidate of the
\* truncated list is eventually dispatched and completes
C8_TargetDateExhaustive ==
    /\ [](TargetDateMode =>
            /\ ~Halted
            /\ \A i \in Candidates : st[i] # "Cancelled" /\ ~result[i].stop_crawling)
    /\ (TargetDateMode ~> AllWorkersDone)

C8_Witness ==
    /\ TargetDateMode
    /\ pc = "returned"
    /\ total = MaxLinks
    /\ AllWorkersDone
    /\ \E i \in Candidates : OlderThanCutoff(result[i].time_value, now)
    /\ \E i \in Candidates : result[i].job_date = config.target_date

\* successfully fetched candidates whose parsed posting date is the target date
OnTargetDate ==
    {i \in Candidates :
        /\ ~result[i].is_none
        /\ parser_parse(result[i].time_value).ok
        /\ DateOf(parser_parse(result[i].time_value)) = config.target_date}

C10_NoOldPostingAccepted ==
    (pc # "policy_call" /\ pc # "policy_return" /\ RollingWindow(config))
        => \A i \in Accepted : ~OlderThanCutoff(result[i].time_value, now)

\* candidate i went through a worker and its fetch gave no result
FetchFailed(i) == st[i] \in {"Fetched", "Completed", "Handled"} /\ result[i].is_none

\* C11: handling a candidate whose fetch failed changes no other candidate
\* and does not halt the run; a candidate is cancelled only in rolling-window
\* mode after the handler processed a completion with a stop verdict
C11_FailureIsolation ==
    /\ [](\A i \in DOMAIN st :
            st[i] = "Cancelled" =>
                /\ RollingWindow(config)
                /\ \E j \in DOMAIN st : st[j] = "Handled" /\ result[j].stop_crawling)
    /\ [][\A i \in DOMAIN st :
            (Handles(i) /\ result[i].is_none) =>
                /\ \A j \in DOMAIN st \ {i} : st'[j] = st[j]
                /\ should_stop' = should_stop
                /\ cursor' = cursor]_vars

\* a failed candidate was handled, a later one halted the run, a third one
\* was cancelled
C11_Witness ==
    /\ pc = "returned"
    /\ \E i \in DOMAIN st : st[i] = "Handled" /\ result[i].is_none
    /\ \E j \in DOMAIN st : st[j] = "Handled" /\ result[j].stop_crawling
    /\ \E k \in DOMAIN st : st[k] = "Cancelled"

\* C12: a candidate whose fetch failed or gave no HTML is never in the
\* accepted list, and handling it neither appends anything nor makes the run
\* raise: the loop goes on, or ends normally after the last completion
C12_FailedFetchSkipped ==
    /\ [](\A i \in DOMAIN st : FetchFailed(i) => i \notin Accepted)
    /\ [][\A i \in DOMAIN st :
            (Handles(i) /\ result[i].is_none) =>
                /\ scraped_jobs' = scraped_jobs
                /\ sink' = sink
                /\ pc' \in {"loop", "shutdown"}]_vars

\* every candidate of a full list failed and the run returned an empty list
C12_Witness ==
    /\ pc = "returned"
    /\ DOMAIN st = 1..MaxLinks
    /\ \A i \in DOMAIN st : st[i] = "Handled" /\ result[i].is_none
    /\ scraped_jobs = <<>>

\* C13: every run eventually returns, and when it has returned no candidate
\* is still queued or in a worker
C13_Termination ==
    /\ <>(pc = "returned")
    /\ [](pc = "returned" => \A i \in DOMAIN st : st[i] \notin {"Queued", "Dispatched"})

\* C14: with concurrency 1 in rolling-window mode no accepted candidate is
\* preceded in discovery order by a candidate whose posting is older than
\* the cutoff
C14_AcceptedPrecedeFirstOld ==
    (pc \in {"start", "loop", "cancel", "shutdown", "returned", "raising", "raised"}
     /\ RollingWindow(config) /\ config.concurrency = 1)
        => \A a \in Accepted : \A b \in 1..(a - 1) :
              ~OlderThanCutoff(result[b].time_value, now)

\* --concurrency and --target-date as given on the command line
RequestedConcurrency == args.concurrency

ValidDateString(str) ==
    str.fmt = "iso" /\ str.mon \in 1..12 /\ str.day \in 1..DaysInMonth(str.mon)

MainConfigured == pc \in {"main_discover", "main_links", "main_returned", "main_scrape"}

\* C15 as stated: a configuration with concurrency < 1 is rejected, nothing
\* runs with it
C15_LowConcurrencyRejected == MainConfigured => RequestedConcurrency >= 1

\* C15 as amended: a concurrency below 1 is raised to 1, other values are
\* kept; the configuration is never rejected and never holds a value below 1
C15_LowConcurrencyClamped ==
    MainConfigured =>
        /\ config.concurrency >= 1
        /\ RequestedConcurrency >= 1 => config.concurrency = RequestedConcurrency
        /\ RequestedConcurrency < 1 => config.concurrency = 1

C15_Witness ==
    /\ pc = "main_scrape"
    /\ RequestedConcurrency < 1
    /\ config.concurrency = 1

\* C16 as stated: with a --target-date that is empty or no valid calendar
\* date the program stops before discovery
C16_BadTargetDateRejected ==
    (args.target_date.fmt # "none" /\ ~ValidDateString(args.target_date))
        => ~MainConfigured

\* C16 as amended: a --target-date that is absent, empty or no valid calendar
\* date is ignored and the run is configured for rolling-window mode; a valid
\* one gives target-date mode with that date
C16_BadTargetDateIgnored ==
    MainConfigured =>
        /\ ~ValidDateString(args.target_date) => RollingWindow(config)
        /\ ValidDateString(args.target_date) =>
              config.target_date = [mon |-> args.target_date.mon,
                                    day |-> args.target_date.day]

C16_Witness ==
    /\ pc = "main_scrape"
    /\ args.target_date = DateString("iso", 2, 30)
    /\ RollingWindow(config)

\* the URLs of MapUrls that are job postings and are not excluded
UsableUrls == {JobA, JobB}

\* discovery failed: the mapping request raised, gave nothing, or its links
\* hold no job posting that is not excluded
DiscoveryFailed ==
    \/ map_result.outcome # "ok"
    \/ map_result.value.shape \in {"none", "other"}
    \/ /\ map_result.value.shape = "object"
       /\ ~\E k \in DOMAIN map_result.value.links :
             /\ map_result.value.links[k].has_url
             /\ map_result.value.links[k].url \in UsableUrls
    \/ /\ map_result.value.shape = "list"
       /\ ~\E k \in DOMAIN map_result.value.items : map_result.value.items[k] \in UsableUrls
    \/ /\ map_result.value.shape = "dict"
       /\ ~\E key \in DOMAIN map_result.value.entries :
             /\ key \in {"links", "urls", "data", "results"}
             /\ \E k \in DOMAIN map_result.value.entries[key] :
                   map_result.value.entries[key][k] \in UsableUrls

\* C17: when discovery fails main returns without entering scrape_all_jobs
C17_DiscoveryFailureAborts ==
    DiscoveryFailed => (pc # "main_scrape" /\ job_links = <<>>)

C17_Witness ==
    /\ pc = "main_returned"
    /\ map_result.outcome = "ok"
    /\ map_result.value.shape = "list"
    /\ Len(map_result.value.items) = 2
    /\ links = LinkList(FALSE, <<>>)

\* C18: the candidates of a run are the first min(len(job_links), max_jobs)
\* links in their order; no link beyond that is a candidate, is fetched or
\* accepted
C18_OnlyFirstMaxJobs ==
    pc \in {"start", "loop", "cancel", "shutdown", "returned", "raising", "raised"} =>
        /\ DOMAIN st = 1..Min(Len(job_links), config.max_jobs)
        /\ \A i \in DOMAIN st : i <= config.max_jobs /\ jobs_to_scrape[i] = job_links[i]
        /\ \A a \in Accepted : a <= config.max_jobs

C18_Witness ==
    /\ pc = "returned"
    /\ config.max_jobs = MaxLinks - 1
    /\ Len(job_links) = MaxLinks
    /\ \A i \in 1..(MaxLinks - 1) : i \in Accepted

\* C19: a candidate is never dispatched to a worker while a candidate that
\* precedes it in discovery order has not yet been dispatched
C19_DispatchInDiscoveryOrder ==
    [][\A j \in DOMAIN st :
         (st[j] = "Queued" /\ st'[j] = "Dispatched") =>
            \A i \in 1..(j - 1) : st'[i] # "Queued"]_vars

\* C20: the accepted list only grows at its end, by the candidate whose
\* completion the handler processes in that step
C20_AcceptedInHandlingOrder ==
    [][\/ scraped_jobs' = scraped_jobs
       \/ \E i \in DOMAIN st : Handles(i) /\ scraped_jobs' = Append(scraped_jobs, i)]_vars

\* a later candidate was handled and accepted before an earlier one
C20_Witness ==
    /\ pc = "returned"
    /\ Len(scraped_jobs) >= 2
    /\ scraped_jobs[1] > scraped_jobs[2]


\* a step writes the run state shared by the completions
SharedWrite ==
    \/ scraped_jobs' # scraped_jobs
    \/ should_stop' # should_stop
    \/ cursor' # cursor
    \/ sink' # sink

\* C21: the accepted list, the halt state and the sink are written only in
\* a step of the completion handler (processing one completion, or its
\* cancellation loop); the handler processes one completion per step and
\* each completion at most once; a step in which a worker is dispatched or
\* finishes writes none of them
C21_SingleWriter ==
    [][/\ SharedWrite => (pc = "cancel" \/ \E i \in DOMAIN st : Handles(i))
       /\ \A i, j \in DOMAIN st : (Handles(i) /\ Handles(j)) => i = j
       /\ \A i \in DOMAIN st : st[i] = "Handled" => st'[i] = "Handled"
       /\ \A i \in DOMAIN st :
            (st[i] \in {"Queued", "Dispatched"} /\ st'[i] \in {"Dispatched", "Fetched", "Completed"}
             /\ st'[i] # st[i]) => ~SharedWrite]_vars

\* two completions are pending at once while the handler has already written
C21_Witness ==
    /\ pc = "loop"
    /\ scraped_jobs # <<>>
    /\ \E i, j \in DOMAIN st : i # j /\ st[i] = "Completed" /\ st[j] = "Completed"

\* C22: when the sink raised for a posting the orchestrator does not end by
\* raising: the exception stays out of its control flow
C22_SinkFailureNotPropagated ==
    (\E i \in DOMAIN sink : sink[i] = "error") => pc \notin {"raising", "raised"}

\* the part of a link after its '/job/' marker
Remainder(link) == SubSeq(link, Find(link, JobMarker) + Len(JobMarker), Len(link))

\* a link with the marker whose remainder is one non-empty segment and no
\* category/ or tag/ sub-path
SingleJobSegment(link) ==
    /\ Contains(link, JobMarker)
    /\ Remainder(link) # <<>>
    /\ \A k \in DOMAIN Remainder(link) : Remainder(link)[k] # "/"
    /\ ~(Len(Remainder(link)) >= 2 /\ Remainder(link)[1] \in {"category", "tag"}
         /\ Remainder(link)[2] = "/")

Excluded(cfg, link) ==
    \E k \in DOMAIN cfg.excluded_urls : Contains(link, cfg.excluded_urls[k])

\* C23: every URL the filter returns has the marker and a remainder that is
\* one non-empty segment, no category/ or tag/ sub-path; every input URL of
\* that kind that matches no exclusion string is returned
C23_FilterCorrect ==
    pc = "filter_return" =>
        /\ \A k \in DOMAIN eval_out : SingleJobSegment(eval_out[k])
        /\ \A k \in DOMAIN eval_in.all_links :
              (SingleJobSegment(eval_in.all_links[k])
               /\ ~Excluded(eval_in.config, eval_in.all_links[k]))
                 => \E j \in DOMAIN eval_out : eval_out[j] = eval_in.all_links[k]

\* C24: a URL that contains a configured exclusion string is not in the
\* filter output
C24_ExcludedAbsent ==
    pc = "filter_return" =>
        \A k \in DOMAIN eval_in.all_links :
            Excluded(eval_in.config, eval_in.all_links[k])
                => \A j \in DOMAIN eval_out : eval_out[j] # eval_in.all_links[k]

\* a job URL is dropped only because it contains the exclusion string "/a"
C24_Witness ==
    /\ pc = "filter_return"
    /\ eval_in.config.excluded_urls = << <<"/", "a">> >>
    /\ eval_in.all_links = <<JobA, JobB>>
    /\ eval_out = <<JobB>>

\* C25: the filter output is the input with the occurrences of some URLs
\* removed: order and multiplicity of the surviving URLs are kept
C25_FilterIsSubsequence ==
    pc = "filter_return" =>
        \E K \in SUBSET {eval_in.all_links[k] : k \in DOMAIN eval_in.all_links} :
            eval_out = SelectSeq(eval_in.all_links, LAMBDA u : u \in K)

C25_Witness ==
    /\ pc = "filter_return"
    /\ Len(eval_in.all_links) = 2
    /\ \/ eval_out = <<JobA, JobA>>
       \/ eval_out = <<JobB, JobA>>

RECURSIVE UrlFields(_)
\* the non-empty url fields of a list of link results, in order
UrlFields(l) ==
    IF l = <<>> THEN <<>>
    ELSE (IF Head(l).has_url /\ Head(l).url # <<>> THEN <<Head(l).url>> ELSE <<>>)
         \o UrlFields(Tail(l))

\* C26: a response with a links attribute gives the non-empty url fields of
\* its items in order; otherwise a mapping gives the value under the first
\* of links, urls, data, results it holds; otherwise a list gives itself;
\* anything else gives the empty list
C26_ExtractLinksShapes ==
    pc = "extract_links_return" =>
        LET v == eval_in.value
            keys == DOMAIN v.entries
        IN  CASE v.shape \in {"object", "dict_object", "list_object"} ->
                    eval_out = UrlFields(v.links)
              [] v.shape = "dict" ->
                    /\ "links" \in keys => eval_out = v.entries["links"]
                    /\ ("urls" \in keys /\ "links" \notin keys) => eval_out = v.entries["urls"]
                    /\ ("data" \in keys /\ keys \cap {"links", "urls"} = {})
                          => eval_out = v.entries["data"]
                    /\ ("results" \in keys /\ keys \cap {"links", "urls", "data"} = {})
                          => eval_out = v.entries["results"]
                    /\ keys \cap {"links", "urls", "data", "results"} = {} => eval_out = <<>>
              [] v.shape = "list" -> eval_out = v.items
              [] OTHER -> eval_out = <<>>

\* a mapping with two of the keys, and a mapping that also has a links attribute
C26_Witness ==
    /\ pc = "extract_links_return"
    /\ \/ /\ eval_in.value.shape = "dict"
          /\ DOMAIN eval_in.value.entries = {"links", "urls"}
          /\ eval_in.value.entries["links"] = <<JobA>>
          /\ eval_in.value.entries["urls"] = <<JobB, JobA>>
          /\ eval_out = <<JobA>>
       \/ /\ eval_in.value.shape = "dict_object"
          /\ eval_in.value.links = <<LinkResult(TRUE, JobA)>>
          /\ eval_out = <<JobA>>

\* C27: for a document without article, or whose parsing raises, the
\* extractor returns the whole document with article_found false and no
\* date; it returns a result for every document
C27_ExtractionNeverFails ==
    pc = "extract_return" =>
        /\ ~eval_out.is_none
        /\ (~eval_in.page.article \/ eval_in.page.raises) =>
              /\ eval_out.html_content = "body"
              /\ ~eval_out.article_found
              /\ eval_out.time_value = NoneTime
              /\ eval_out.job_date = NoDate

C27_Witness ==
    /\ pc = "extract_return"
    /\ eval_in.page.raises
    /\ eval_in.page.article
    /\ eval_in.page.time_tag
    /\ eval_out.html_content = "body"

\* C28: for a document with an article that holds a time element the
\* extractor sets article_found and returns the element's datetime attribute
\* if it has one, else its text; a time element outside the article is not
\* used
C28_TimestampRecovered ==
    (pc = "extract_return" /\ eval_in.page.article /\ ~eval_in.page.raises) =>
        /\ eval_out.article_found
        /\ (eval_in.page.time_tag /\ eval_in.page.has_datetime)
              => eval_out.time_value = eval_in.page.datetime
        /\ (eval_in.page.time_tag /\ ~eval_in.page.has_datetime)
              => eval_out.time_value = eval_in.page.text
        /\ ~eval_in.page.time_tag => eval_out.time_value = NoneTime

C28_Witness ==
    /\ pc = "extract_return"
    /\ eval_in.page.article /\ eval_in.page.time_tag /\ eval_in.page.has_datetime
    /\ eval_in.page.datetime = TimeString("offset", 1, 1, 0)
    /\ eval_in.page.text = TimeString("date", 5, 1, 0)
    /\ eval_in.page.outside # NoneTime
    /\ eval_out.time_value = TimeString("offset", 1, 1, 0)

\* the candidate's worker has returned
WorkerDone == {"Fetched", "Completed", "Handled"}

\* C30: a candidate goes from Queued to Dispatched or to Cancelled, from
\* Dispatched only to a state in which its worker has returned; it never
\* leaves those states nor Cancelled, its result never changes afterwards,
\* and a Cancelled candidate has no result
C30_CandidateStateMachine ==
    [][\A i \in DOMAIN st :
         /\ st[i] = "Queued" => st'[i] \in {"Queued", "Dispatched", "Cancelled"}
         /\ st[i] = "Dispatched" => st'[i] \in {"Dispatched"} \cup WorkerDone
         /\ st[i] \in WorkerDone => (st'[i] \in WorkerDone /\ result'[i] = result[i])
         /\ st[i] = "Cancelled" =>
               (st'[i] = "Cancelled" /\ result[i] = NoneResult /\ result'[i] = NoneResult)]_vars

\* a run that ended with a handled, an unhandled and a cancelled candidate
C30_Witness ==
    /\ pc = "returned"
    /\ \E i \in DOMAIN st : st[i] = "Handled"
    /\ \E j \in halt_inflight : st[j] \in {"Fetched", "Completed"}
    /\ \E k \in DOMAIN st : st[k] = "Cancelled"

-----------------------------------------------------------------------------
(* The two orchestrators on the same inputs: the completion loops of        *)
(* scrape_all_jobs_async and scrape_all_jobs_sync as functions of the       *)
(* configuration, the candidates' results, whether save_job_files succeeds  *)
(* for each, and the order in which the completions are handled.            *)

MaxCompletions == 2

\* the orders in which n completions can be handled
CompletionOrders(n) ==
    {o \in [1..n -> 1..n] : \A a, b \in 1..n : o[a] = o[b] => a = b}

RECURSIVE async_loop(_, _, _, _, _)
\* "for coro in asyncio.as_completed(tasks)": a halt verdict breaks, an
\* exception of save_result is swallowed by "except Exception: continue"
async_loop(cfg, results, sink_ok, order, jobs) ==
    IF order = <<>>
    THEN [returns |-> TRUE, scraped_jobs |-> jobs]
    ELSE LET i == Head(order)
             outcome == handler_outcome(cfg, results[i], sink_ok[i])
         IN  IF outcome = "halt"
             THEN [returns |-> TRUE, scraped_jobs |-> jobs]
             ELSE async_loop(cfg, results, sink_ok, Tail(order),
                             append_job(jobs, i, outcome))

RECURSIVE sync_loop(_, _, _, _, _)
\* "for idx, future in enumerate(as_completed(future_to_url), 1)": a halt
\* verdict breaks, an exception of save_result leaves the function (nothing
\* is returned; the record keeps the list built so far)
sync_loop(cfg, results, sink_ok, order, jobs) ==
    IF order = <<>>
    THEN [returns |-> TRUE, scraped_jobs |-> jobs]
    ELSE LET i == Head(order)
             outcome == handler_outcome(cfg, results[i], sink_ok[i])
         IN  CASE outcome = "halt" -> [returns |-> TRUE, scraped_jobs |-> jobs]
               [] outcome = "error" -> [returns |-> FALSE, scraped_jobs |-> jobs]
               [] OTHER -> sync_loop(cfg, results, sink_ok, Tail(order),
                                     append_job(jobs, i, outcome))

OrchestratorsInit ==
    /\ HarnessIdle
    /\ pc = "orchestrators_call"
    /\ \E n \in 1..MaxCompletions :
         eval_in \in [config : {CrawlerConfig(t, 1, DefaultMaxJobs) : t \in TargetDates},
                      fetches : [1..n -> RunFetches],
                      sink_ok : [1..n -> BOOLEAN],
                      order : CompletionOrders(n)]
    /\ eval_out = <<>>

\* both orchestrators are run on the inputs
ApplyOrchestrators ==
    /\ pc = "orchestrators_call"
    /\ LET results == [i \in DOMAIN eval_in.fetches |->
                          scrape_job_page(eval_in.config, eval_in.fetches[i], now)]
       IN  eval_out' =
             [async |-> async_loop(eval_in.config, results, eval_in.sink_ok,
                                   eval_in.order, <<>>),
              sync |-> sync_loop(eval_in.config, results, eval_in.sink_ok,
                                 eval_in.order, <<>>)]
    /\ pc' = "orchestrators_return"
    /\ UNCHANGED <<stage_vars, args, map_result, links, orchestrator, config, now, job_links, st,
                   result, done, scraped_jobs, sink, should_stop, cursor, awaiting,
                   semaphore, halt_inflight, eval_in>>

OrchestratorsNext == ApplyOrchestrators

OrchestratorsSpec == OrchestratorsInit /\ [][OrchestratorsNext]_vars

\* C31: on the same configuration, results, sink outcomes and completion
\* order both orchestrators return, and return the same accepted list
C31_OrchestratorsEquivalent ==
    pc = "orchestrators_return" =>
        /\ eval_out.async.returns
        /\ eval_out.sync.returns
        /\ eval_out.async.scraped_jobs = eval_out.sync.scraped_jobs

\* candidates whose worker has returned
CompletedCandidates == {i \in DOMAIN st : st[i] \in {"Fetched", "Completed", "Handled"}}

\* C32: every entry of the accepted list is a candidate of the truncated
\* list whose completion was handled and whose result has non-empty
\* content; no candidate has two entries; the list is no longer than the
\* number of completed candidates
C32_AcceptedAreCompleted ==
    /\ \A k \in DOMAIN scraped_jobs :
         /\ scraped_jobs[k] \in 1..Min(Len(job_links), config.max_jobs)
         /\ st[scraped_jobs[k]] = "Handled"
         /\ ~result[scraped_jobs[k]].is_none
         /\ result[scraped_jobs[k]].html_content # "none"
    /\ \A k, l \in DOMAIN scraped_jobs : scraped_jobs[k] = scraped_jobs[l] => k = l
    /\ Len(scraped_jobs) <= Cardinality(CompletedCandidates)

\* an accepted candidate next to a completed one that is not accepted and
\* a candidate beyond the truncated list
C32_Witness ==
    /\ Len(scraped_jobs) = 1
    /\ Cardinality(CompletedCandidates) = 2
    /\ \E i \in DOMAIN st : st[i] = "Handled" /\ result[i].is_none
    /\ Len(job_links) > Len(st)

\* candidate i was fetched with non-empty content and its completion handled
\* in a rolling-window run that has not halted
HandledWithContent(i) ==
    /\ config.target_date = NoDate
    /\ ~should_stop /\ cursor = 0
    /\ st[i] = "Handled"
    /\ ~result[i].is_none
    /\ result[i].html_content # "none"

-----------------------------------------------------------------------------
(* The structured-extraction stage: process_multiple_files_async of         *)
(* jobscallme_extract.py.  One process_single_file task per markdown file,  *)
(* all on one event loop; a task holds the semaphore from before its        *)
(* extract_job_data_async call until it returns.                            *)

MaxFiles == 3

\* f"firecrawl/job-data/{today}/jobscallme/json/{md_file.stem}.json"
json_path(md_file) == <<"json", md_file>>

NoTaskResult == [json_path |-> <<>>, success |-> FALSE]

\* faulty variant: the except branch reports the file as done
task_result_success_on_error(md_file, extracted) ==
    [json_path |-> json_path(md_file), success |-> TRUE]

\* what process_single_file returns: (json_path, True, "") when
\* extract_job_data_async returned, ("", False, str(e)) when it raised
task_result(md_file, extracted) ==
    IF extracted
    THEN [json_path |-> json_path(md_file), success |-> TRUE]
    ELSE NoTaskResult

\* faulty variant: one permit too many
stage_semaphore_off_by_one(max_concurrent) == max_concurrent + 1

\* semaphore = asyncio.Semaphore(max_concurrent)
stage_semaphore(max_concurrent) == max_concurrent

\* the tasks inside extract_job_data_async
Extracting == {k \in DOMAIN tasks : tasks[k].state = "extracting"}

\* process_batch_files passes max_concurrent=5; the files found are named 1..n
ExtractStageInit ==
    /\ CrawlerIdle
    /\ UploadStageIdle
    /\ semaphore = 0
    /\ pc = "process_call"
    /\ eval_in \in [markdown_dir_exists : BOOLEAN, max_concurrent : 1..MaxConcurrency]
    /\ eval_out = <<>>
    /\ \E n \in 0..MaxFiles :
         /\ md_files = [k \in 1..n |-> k]
         /\ ~eval_in.markdown_dir_exists => n = 0
    /\ tasks = <<>>
    /\ extract_calls = <<>>
    /\ successful_files = <<>>
    /\ failed_files = <<>>

\* process_multiple_files_async up to "await asyncio.gather(*tasks, ...)":
\* ValueError for a missing directory, [] when no file is found, else one
\* task per file
ProcessStart ==
    /\ pc = "process_call"
    /\ IF ~eval_in.markdown_dir_exists
       THEN /\ pc' = "process_raised"
            /\ UNCHANGED <<semaphore, tasks, extract_calls>>
       ELSE IF md_files = <<>>
       THEN /\ pc' = "process_returned"
            /\ UNCHANGED <<semaphore, tasks, extract_calls>>
       ELSE /\ pc' = "gather"
            /\ semaphore' = stage_semaphore(eval_in.max_concurrent)
            /\ tasks' = [k \in DOMAIN md_files |->
                           [state |-> "waiting", extracted |-> FALSE, result |-> NoTaskResult]]
            /\ extract_calls' = [k \in DOMAIN md_files |-> 0]
    /\ UNCHANGED <<crawl_vars, eval_in, eval_out, md_files, successful_files, failed_files,
                   json_files, uploaded, successful_uploads, exit_status>>

\* "async with semaphore": the tasks start in list order and a released
\* permit goes to the longest waiting task; the task then calls
\* extract_job_data_async
TaskAcquire(k) ==
    /\ pc = "gather"
    /\ k \in DOMAIN tasks
    /\ tasks[k].state = "waiting"
    /\ \A j \in DOMAIN tasks : j < k => tasks[j].state # "waiting"
    /\ semaphore > 0
    /\ semaphore' = semaphore - 1
    /\ tasks' = [tasks EXCEPT ![k].state = "extracting"]
    /\ extract_calls' = [extract_calls EXCEPT ![k] = @ + 1]
    /\ UNCHANGED <<crawl_vars, pc, eval_in, eval_out, md_files, successful_files,
                   failed_files, json_files, uploaded, successful_uploads, exit_status>>

\* extract_job_data_async returns (the JSON file is written) or raises; the
\* task returns its tuple and leaves "async with semaphore"
TaskFinish(k) ==
    /\ pc = "gather"
    /\ k \in Extracting
    /\ \E extracted \in BOOLEAN :
         tasks' = [tasks EXCEPT ![k] = [state |-> "done", extracted |-> extracted,
                                        result |-> task_result(md_files[k], extracted)]]
    /\ semaphore' = semaphore + 1
    /\ UNCHANGED <<crawl_vars, pc, eval_in, eval_out, md_files, extract_calls,
                   successful_files, failed_files, json_files, uploaded,
                   successful_uploads, exit_status>>

\* gather returns when every task has; "for i, result in enumerate(results)"
\* then sorts the results and the function returns successful_files
CollectResults ==
    /\ pc = "gather"
    /\ \A k \in DOMAIN tasks : tasks[k].state = "done"
    /\ LET succeeded == SelectSeq([k \in DOMAIN tasks |-> k],
                                  LAMBDA k : tasks[k].result.success)
           failed == SelectSeq([k \in DOMAIN tasks |-> k],
                               LAMBDA k : ~tasks[k].result.success)
       IN  /\ successful_files' = [j \in DOMAIN succeeded |-> tasks[succeeded[j]].result.json_path]
           /\ failed_files' = [j \in DOMAIN failed |-> md_files[failed[j]]]
    /\ pc' = "process_returned"
    /\ UNCHANGED <<crawl_vars, semaphore, eval_in, eval_out, md_files, tasks, extract_calls,
                   json_files, uploaded, successful_uploads, exit_status>>

ExtractStageNext ==
    \/ ProcessStart
    \/ \E k \in DOMAIN tasks : TaskAcquire(k)
    \/ \E k \in DOMAIN tasks : TaskFinish(k)
    \/ CollectResults

ExtractStageSpec == ExtractStageInit /\ [][ExtractStageNext]_vars

\* the event loop runs every task that can run, and every
\* extract_job_data_async call returns or raises
ExtractStageFairSpec == ExtractStageSpec /\ WF_vars(ExtractStageNext)

\* C34: at most max_concurrent files are inside the extraction call at any
\* time, no file is given to it twice, the stage ends, and when it returns
\* every markdown file found has been given to it once
C34_BoundedAndComplete ==
    /\ [](Cardinality(Extracting) <= eval_in.max_concurrent)
    /\ [](\A k \in DOMAIN extract_calls : extract_calls[k] <= 1)
    /\ <>(pc \in {"process_returned", "process_raised"})
    /\ [](pc = "process_returned" =>
            \A k \in DOMAIN md_files :
                k \in DOMAIN extract_calls /\ extract_calls[k] = 1 /\ tasks[k].state = "done")

\* all permits are taken while a file waits and another is done
C34_Witness ==
    /\ pc = "gather"
    /\ Cardinality(Extracting) = eval_in.max_concurrent
    /\ \E k \in DOMAIN tasks : tasks[k].state = "waiting"
    /\ \E k \in DOMAIN tasks : tasks[k].state = "done"

\* C35: when the stage returns every file has been processed whatever
\* happened to the others, the successful and the failed files add up to
\* the markdown files found, and the returned list holds the JSON path of
\* each file whose extraction returned exactly once and of no other file
C35_FailuresIsolated ==
    pc = "process_returned" =>
        /\ \A k \in DOMAIN md_files : k \in DOMAIN tasks /\ tasks[k].state = "done"
        /\ Len(successful_files) + Len(failed_files) = Len(md_files)
        /\ \A k \in DOMAIN md_files :
             Cardinality({j \in DOMAIN successful_files :
                              successful_files[j] = json_path(md_files[k])})
               = IF tasks[k].extracted THEN 1 ELSE 0
        /\ Len(successful_files) = Cardinality({k \in DOMAIN md_files : tasks[k].extracted})

\* a failed file is followed by a successful one
C35_Witness ==
    /\ pc = "process_returned"
    /\ Len(md_files) >= 2
    /\ ~tasks[1].extracted
    /\ tasks[2].extracted
    /\ successful_files = <<json_path(md_files[2])>>

\* C36: the job_url rebuilt from the saved file's stem is the URL that was
\* fetched, and candidates with different URLs get different file names
C36_UrlRoundTrip ==
    pc = "save_return" =>
        /\ \A k \in DOMAIN eval_out : eval_out[k].job_url = eval_out[k].url
        /\ \A k, l \in DOMAIN eval_out :
             eval_out[k].url # eval_out[l].url
                => eval_out[k].md_filename # eval_out[l].md_filename

-----------------------------------------------------------------------------
(* Population of individual files: process_json_file and the loop of        *)
(* populate_individual_json_files (populate_json.py).  A JSON file is its    *)
(* stem, what json.load gives for it, and the position of the first output   *)
(* file whose writing raises (0 if none does).                               *)

MaxJsonFiles == 2

MaxJobsPerFile == 2

\* kind: "unreadable" (open raises), "invalid_json", "not_mapping",
\* "no_jobs" (mapping without 'jobs'), "jobs_not_list", "jobs_list"
JsonFile(stem, kind, jobs, fail_at) ==
    [stem |-> stem, kind |-> kind, jobs |-> jobs, fail_at |-> fail_at]

\* f"{i:03d}"
three_digits(i) == <<(i \div 100) % 10, (i \div 10) % 10, i % 10>>

\* faulty variant: enumerate(jobs) counts from 0
job_number_from_zero(position) == position - 1

\* "for i, job in enumerate(jobs, 1)": the number of the job at a position
job_number(position) == position

\* individual_filename = f"{base_name}-{i:03d}.json"
individual_filename(base_name, i) == <<base_name, "-">> \o three_digits(i) \o <<".json">>

\* process_json_file: what it returns, whether an exception leaves it, and
\* the files it wrote
process_json_file(json_file) ==
    LET n == Len(json_file.jobs)
        last == IF json_file.fail_at = 0 THEN n ELSE json_file.fail_at - 1
    IN  IF json_file.kind # "jobs_list" \/ n = 0
        THEN [raises |-> FALSE, jobs_created |-> 0, written |-> <<>>]
        ELSE [raises |-> FALSE,
              jobs_created |-> IF json_file.fail_at = 0 THEN n ELSE 0,
              written |-> [p \in 1..last |->
                             [name |-> individual_filename(json_file.stem, job_number(p)),
                              job |-> json_file.jobs[p]]]]

RECURSIVE total_jobs_created(_)
\* total_jobs_created += jobs_created, over the files
total_jobs_created(results) ==
    IF results = <<>> THEN 0
    ELSE Head(results).jobs_created + total_jobs_created(Tail(results))

\* the loop of populate_individual_json_files
populate_individual_json_files(files) ==
    LET results == [k \in DOMAIN files |-> process_json_file(files[k])]
    IN  [results |-> results, total_jobs_created |-> total_jobs_created(results)]

\* the contents a file of the json directory can have: the jobs of a list
\* are named by their position
JsonContents ==
    {<<kind, <<>>, 0>> : kind \in {"unreadable", "invalid_json", "not_mapping",
                                    "no_jobs", "jobs_not_list"}}
    \cup {<<"jobs_list", [p \in 1..n |-> <<"job", p>>], f>> :
             n \in 0..MaxJobsPerFile, f \in 0..MaxJobsPerFile}

PopulateInit ==
    /\ HarnessIdle
    /\ pc = "populate_call"
    /\ \E n \in 1..MaxJsonFiles :
         \E contents \in [1..n -> JsonContents] :
           /\ \A k \in 1..n : contents[k][3] <= Len(contents[k][2])
           /\ eval_in = [json_files |->
                           [k \in 1..n |-> JsonFile(k, contents[k][1], contents[k][2],
                                                    contents[k][3])]]
    /\ eval_out = <<>>

ApplyPopulate ==
    /\ pc = "populate_call"
    /\ eval_out' = populate_individual_json_files(eval_in.json_files)
    /\ pc' = "populate_return"
    /\ UNCHANGED <<stage_vars, crawl_vars, semaphore, eval_in>>

PopulateNext == ApplyPopulate

PopulateSpec == PopulateInit /\ [][PopulateNext]_vars

\* file k holds a mapping with a non-empty list under 'jobs'
HasJobs(k) ==
    eval_in.json_files[k].kind = "jobs_list" /\ eval_in.json_files[k].jobs # <<>>

\* the first upto jobs of file k were written, numbered 001.. in list order
WrittenInOrder(k, upto) ==
    /\ Len(eval_out.results[k].written) = upto
    /\ \A p \in 1..upto :
         /\ eval_out.results[k].written[p].name =
               <<eval_in.json_files[k].stem, "-", 0, 0, p, ".json">>
         /\ eval_out.results[k].written[p].job = eval_in.json_files[k].jobs[p]

\* nothing is written for the other files, 0 is returned, and the total is
\* the sum of the counts
PopulateOtherCases ==
    /\ \A k \in DOMAIN eval_in.json_files :
         /\ ~eval_out.results[k].raises
         /\ ~HasJobs(k) =>
               (eval_out.results[k].jobs_created = 0 /\ eval_out.results[k].written = <<>>)
    /\ \/ /\ Len(eval_out.results) = 1
          /\ eval_out.total_jobs_created = eval_out.results[1].jobs_created
       \/ /\ Len(eval_out.results) = 2
          /\ eval_out.total_jobs_created =
               eval_out.results[1].jobs_created + eval_out.results[2].jobs_created
       \/ /\ Len(eval_out.results) = 3
          /\ eval_out.total_jobs_created =
               eval_out.results[1].jobs_created + eval_out.results[2].jobs_created
               + eval_out.results[3].jobs_created

-----------------------------------------------------------------------------
(* The upload stage: main and R2Uploader.upload_all_json_files of upload.py. *)

\* faulty variant: a partial upload exits with 0
exit_code_partial_ok(successful, total_files) ==
    IF successful > 0 \/ total_files = 0 THEN 0 ELSE 1

\* main: sys.exit(0) if successful == total, sys.exit(1) otherwise
exit_code(successful, total_files) == IF successful = total_files THEN 0 ELSE 1

\* what s3_client.upload_file does for one file: it returns, raises
\* ClientError, or raises another exception
UploadOutcomes == {"ok", "client_error", "error"}

\* R2Uploader.upload_file: True when the upload returned, False in both
\* except branches
upload_file(outcome) == outcome = "ok"

\* main before the upload: credentials, test_connection and the source
\* directory; the files found are named 1..n
UploadInit ==
    /\ CrawlerIdle
    /\ ExtractStageIdle
    /\ semaphore = 1
    /\ pc = "upload_main"
    /\ eval_in \in [preflight : {"ok", "no_credentials", "no_connection", "no_directory"}]
    /\ eval_out = [successful |-> 0, total |-> 0]
    /\ \E n \in 0..MaxFiles :
         /\ json_files = [k \in 1..n |-> k]
         /\ eval_in.preflight # "ok" => n = 0
    /\ uploaded = <<>>
    /\ successful_uploads = 0
    /\ exit_status = -1

\* main up to "uploader.upload_all_json_files(source_dir)": sys.exit(1) when
\* the credentials, the connection or the directory is missing
UploadPreflight ==
    /\ pc = "upload_main"
    /\ IF eval_in.preflight = "ok"
       THEN pc' = "upload_call" /\ UNCHANGED exit_status
       ELSE pc' = "exited" /\ exit_status' = 1
    /\ UNCHANGED <<crawl_vars, semaphore, eval_in, eval_out, md_files, tasks, extract_calls,
                   successful_files, failed_files, json_files, uploaded, successful_uploads>>

\* upload_all_json_files up to its loop: (0, 0) when no file is found
UploadStart ==
    /\ pc = "upload_call"
    /\ IF json_files = <<>>
       THEN /\ pc' = "upload_returned"
            /\ eval_out' = [successful |-> 0, total |-> 0]
            /\ UNCHANGED uploaded
       ELSE /\ pc' = "upload_loop"
            /\ uploaded' = [k \in DOMAIN json_files |-> "pending"]
            /\ UNCHANGED eval_out
    /\ UNCHANGED <<crawl_vars, semaphore, eval_in, md_files, tasks, extract_calls,
                   successful_files, failed_files, json_files, successful_uploads,
                   exit_status>>

\* one iteration of "for i, file_path in enumerate(json_files, 1)"; after the
\* last file the function returns (successful_uploads, total_files)
UploadFile(k) ==
    /\ pc = "upload_loop"
    /\ k \in DOMAIN uploaded
    /\ uploaded[k] = "pending"
    /\ \A j \in DOMAIN uploaded : j < k => uploaded[j] # "pending"
    /\ \E outcome \in UploadOutcomes :
         /\ uploaded' = [uploaded EXCEPT ![k] = outcome]
         /\ successful_uploads' = successful_uploads + (IF upload_file(outcome) THEN 1 ELSE 0)
    /\ IF k = Len(json_files)
       THEN /\ pc' = "upload_returned"
            /\ eval_out' = [successful |-> successful_uploads', total |-> Len(json_files)]
       ELSE UNCHANGED <<pc, eval_out>>
    /\ UNCHANGED <<crawl_vars, semaphore, eval_in, md_files, tasks, extract_calls,
                   successful_files, failed_files, json_files, exit_status>>

\* main after the upload: the exit status
UploadExit ==
    /\ pc = "upload_returned"
    /\ exit_status' = exit_code(eval_out.successful, eval_out.total)
    /\ pc' = "exited"
    /\ UNCHANGED <<crawl_vars, semaphore, eval_in, eval_out, md_files, tasks, extract_calls,
                   successful_files, failed_files, json_files, uploaded, successful_uploads>>

UploadNext ==
    \/ UploadPreflight
    \/ UploadStart
    \/ \E k \in DOMAIN uploaded : UploadFile(k)
    \/ UploadExit

UploadSpec == UploadInit /\ [][UploadNext]_vars

\* C38: once upload_all_json_files has returned every file found has been
\* tried, whatever happened to the files before it; the pair it returns is
\* (number of files uploaded, number of files found); and main exits with 0
\* exactly when every file found was uploaded
C38_UploadReport ==
    (pc \in {"upload_returned", "exited"} /\ eval_in.preflight = "ok") =>
        /\ \A k \in DOMAIN json_files : k \in DOMAIN uploaded /\ uploaded[k] # "pending"
        /\ eval_out.total = Len(json_files)
        /\ eval_out.successful = Cardinality({k \in DOMAIN uploaded : uploaded[k] = "ok"})
        /\ 0 <= eval_out.successful /\ eval_out.successful <= eval_out.total
        /\ pc = "exited" =>
              (exit_status = 0 <=> \A k \in DOMAIN json_files : uploaded[k] = "ok")

\* a failed upload is followed by a successful one and main exits with 1
C38_Witness ==
    /\ pc = "exited"
    /\ Len(json_files) >= 2
    /\ uploaded[1] = "client_error"
    /\ uploaded[2] = "ok"
    /\ exit_status = 1

====
